---- MODULE Spec2Model ----
(***************************************************************************)
(* A model of subreg.api.Api, the Python client of the subreg.cz SOAP API. *)
(*                                                                         *)
(* The client holds one session token (self.ssid).  Every public method    *)
(* is a pure operator from the client state, the arguments and the         *)
(* transport's response to the new token, the transport calls issued and   *)
(* the outcome (a returned value or a raised exception); an action applies *)
(* it.  The transport (zeep) and the remote server are the environment:    *)
(* they answer each call with a falsy response, an error envelope or an ok *)
(* envelope.                                                               *)
(***************************************************************************)
EXTENDS Integers, Sequences, FiniteSets, TLC

VARIABLES
    ssid,    \* self.ssid, the stored session token
    pc,      \* "new" | "idle" | "failed" | "mx_delete" | "mx_add"
    calls,   \* the _request invocations of the operation in progress / last finished
    last,    \* the operation last started: [op, args, out]
    zone,    \* the remote server's DNS zone (a sequence of records)
    nextId,  \* the remote server's next free record id
    mx       \* the locals of set_google_mx_records while it runs

vars == <<ssid, pc, calls, last, zone, nextId, mx>>

(***************************************************************************)
(* Python values.  A value that the code tests for truthiness, or returns, *)
(* carries its type.                                                       *)
(***************************************************************************)
PyNone == [t |-> "NoneType"]
PyStr(s) == [t |-> "str", v |-> s]
PyInt(n) == [t |-> "int", v |-> n]
PyBool(b) == [t |-> "bool", v |-> b]
PyList(l) == [t |-> "list", v |-> l]

\* bool(x), as 'if x:' and 'not x' evaluate it
Truthy(x) ==
    CASE x.t = "NoneType" -> FALSE
      [] x.t = "str" -> x.v # ""
      [] x.t = "int" -> x.v # 0
      [] x.t = "bool" -> x.v
      [] x.t = "list" -> Len(x.v) # 0

EmptyDict == [k \in {} |-> TRUE]
Has(d, k) == k \in DOMAIN d

\* d with d[k] = v, as d[k] = v leaves a dict
SetItem(d, k, v) == [x \in DOMAIN d \cup {k} |-> IF x = k THEN v ELSE d[x]]

\* an argument that is not a dict (isinstance(record, dict) is False)
NonDict == [pytype |-> "str"]
IsDict(r) == ~Has(r, "pytype")

Return(v) == [kind |-> "return", value |-> v]
Raise(e) == [kind |-> "raise", exc |-> e]

\* int(x) of a value that is an int already
ToInt(n) == n

ApiError(message, major, minor) ==
    [type |-> "ApiError", message |-> message, major |-> ToInt(major), minor |-> ToInt(minor)]
FatalError == [type |-> "Exception", message |-> "Fatal error."]
KeyError(k) == [type |-> "KeyError", key |-> k]
TypeError == [type |-> "TypeError"]
NotImplementedError == [type |-> "NotImplementedError"]
RecordIdError ==
    [type |-> "Exception", message |-> "You must specify record.id when edit record."]

(***************************************************************************)
(* The transport: the SOAP method answers with a response envelope.        *)
(***************************************************************************)
FalsyResponse == [pytype |-> "NoneType"]
ErrorEnvelope(major, minor, msg) ==
    [status |-> "error",
     error |-> [errorcode |-> [major |-> major, minor |-> minor], errormsg |-> msg]]
OkEnvelope(data) == [status |-> "ok", data |-> data]
\* a truthy envelope whose status is neither "ok" nor "error"
PendingEnvelope(data) == [status |-> "pending", data |-> data]

ErrorEnvelopes ==
    { ErrorEnvelope(500, 104, "Invalid login"), ErrorEnvelope(501, 1005, "Error") }

\* one invocation of _request, as logged: the call sent, the response
\* received and what _request did with it
Call(command, kwargs, response, out) ==
    [command |-> command, kwargs |-> kwargs, response |-> response, out |-> out]

(***************************************************************************)
(* Api._request                                                            *)
(***************************************************************************)
\* the kwargs sent: the session token is injected when it is truthy
RequestKwargsNoToken(s, kwargs) == kwargs
RequestKwargs(s, kwargs) ==
    IF Truthy(s) THEN SetItem(kwargs, "ssid", s) ELSE kwargs

\* what _request does with the response
RequestResultSwapped(response) ==
    IF response # FalsyResponse
    THEN IF response.status = "error"
         THEN Raise(ApiError(response.error.errormsg,
                             response.error.errorcode.minor,
                             response.error.errorcode.major))
         ELSE Return(response.data)
    ELSE Raise(FatalError)
RequestResultOkOnly(response) ==
    IF response # FalsyResponse
    THEN IF response.status = "error"
         THEN Raise(ApiError(response.error.errormsg,
                             response.error.errorcode.major,
                             response.error.errorcode.minor))
         ELSE IF response.status = "ok"
              THEN Return(response.data)
              ELSE Raise(FatalError)
    ELSE Raise(FatalError)
RequestResult(response) ==
    IF response # FalsyResponse
    THEN IF response.status = "error"
         THEN Raise(ApiError(response.error.errormsg,
                             response.error.errorcode.major,
                             response.error.errorcode.minor))
         ELSE Return(response.data)
    ELSE Raise(FatalError)

\* one transport call and its outcome
request_retrying(s, command, kwargs, response) ==
    LET c == Call(command, RequestKwargs(s, kwargs), response, RequestResult(response))
    IN  [calls |-> IF response = FalsyResponse THEN << c, c >> ELSE << c >>,
         out |-> RequestResult(response)]
request(s, command, kwargs, response) ==
    [calls |-> << Call(command, RequestKwargs(s, kwargs), response,
                       RequestResult(response)) >>,
     out |-> RequestResult(response)]

IsApiError(out) == out.kind = "raise" /\ out.exc.type = "ApiError"

\* the effect of a public method: the token, the calls issued, the outcome
Effect(s, cs, out) == [ssid |-> s, calls |-> cs, out |-> out]

(***************************************************************************)
(* Strings the code edits are sequences of characters.                     *)
(***************************************************************************)
\* re.sub(r"\.$", "", s): "$" matches at the end of the string and also just
\* before a newline that ends the string, so the "." removed is the last
\* character, or the one before a final newline.
ReSubTrailingDot(s) ==
    IF Len(s) >= 1 /\ s[Len(s)] = "."
    THEN SubSeq(s, 1, Len(s) - 1)
    ELSE IF Len(s) >= 2 /\ s[Len(s)] = "\n" /\ s[Len(s) - 1] = "."
         THEN SubSeq(s, 1, Len(s) - 2) \o << "\n" >>
         ELSE s

(***************************************************************************)
(* The public methods.  s is self.ssid when the method starts, response    *)
(* the transport's answer to the call the method issues (if it issues one).*)
(***************************************************************************)
login_clearing(s, username, password, response) ==
    LET r == request(s, "Login", [login |-> username, password |-> password], response)
    IN  IF r.out.kind = "raise"
        THEN Effect(PyNone, r.calls, r.out)
        ELSE IF Has(r.out.value, "ssid")
             THEN Effect(r.out.value.ssid, r.calls, Return(PyNone))
             ELSE Effect(PyNone, r.calls, Raise(KeyError("ssid")))
login(s, username, password, response) ==
    LET r == request(s, "Login", [login |-> username, password |-> password], response)
    IN  IF r.out.kind = "raise"
        THEN Effect(s, r.calls, r.out)
        ELSE IF Has(r.out.value, "ssid")
             THEN Effect(r.out.value.ssid, r.calls, Return(PyNone))
             ELSE Effect(s, r.calls, Raise(KeyError("ssid")))

\* Api.__init__: self.ssid = None, then login when both credentials are truthy
init_either(username, password, response) ==
    IF Truthy(username) \/ Truthy(password)
    THEN login(PyNone, username, password, response)
    ELSE Effect(PyNone, << >>, Return(PyNone))
init(username, password, response) ==
    IF Truthy(username) /\ Truthy(password)
    THEN login(PyNone, username, password, response)
    ELSE Effect(PyNone, << >>, Return(PyNone))

check_domain_nonzero(s, domain, response) ==
    LET r == request(s, "Check_Domain", [domain |-> domain], response)
    IN  IF r.out.kind = "raise"
        THEN Effect(s, r.calls, r.out)
        ELSE IF Has(r.out.value, "avail")
             THEN Effect(s, r.calls, Return(PyBool(r.out.value.avail # 0)))
             ELSE Effect(s, r.calls, Raise(KeyError("avail")))
check_domain(s, domain, response) ==
    LET r == request(s, "Check_Domain", [domain |-> domain], response)
    IN  IF r.out.kind = "raise"
        THEN Effect(s, r.calls, r.out)
        ELSE IF Has(r.out.value, "avail")
             THEN Effect(s, r.calls, Return(PyBool(r.out.value.avail = 1)))
             ELSE Effect(s, r.calls, Raise(KeyError("avail")))

\* return self._request(command, kwargs)
passthrough(s, command, kwargs, response) ==
    LET r == request(s, command, kwargs, response)
    IN  Effect(s, r.calls, r.out)

info_domain(s, domain, response) ==
    passthrough(s, "Info_Domain", [domain |-> domain], response)
info_domain_cz(s, domain, response) ==
    passthrough(s, "Info_Domain_CZ", [domain |-> domain], response)
domains_list(s, response) == passthrough(s, "Domains_List", EmptyDict, response)
contacts_list(s, response) == passthrough(s, "Contacts_List", EmptyDict, response)
get_credit(s, response) == passthrough(s, "Get_Credit", EmptyDict, response)
pricelist(s, response) == passthrough(s, "Pricelist", EmptyDict, response)
list_documents(s, response) == passthrough(s, "List_Documents", EmptyDict, response)
users_list(s, response) == passthrough(s, "Users_List", EmptyDict, response)
poll_get(s, response) == passthrough(s, "POLL_Get", EmptyDict, response)
delete_dns_zone(s, domain, response) ==
    passthrough(s, "Delete_DNS_Zone", [domain |-> domain], response)

AutorenewValues == {"EXPIRE", "AUTORENEW", "RENEWONCE"}

\* try: self._request(...); return True / except ApiError: return False
TrueOrFalsePropagating(s, r) == Effect(s, r.calls, IF r.out.kind = "return" THEN Return(PyBool(TRUE)) ELSE r.out)
TrueOrFalseCatchAll(s, r) ==
    Effect(s, r.calls,
           IF r.out.kind = "return" THEN Return(PyBool(TRUE)) ELSE Return(PyBool(FALSE)))
TrueOrFalse(s, r) ==
    Effect(s, r.calls,
           IF r.out.kind = "return" THEN Return(PyBool(TRUE))
           ELSE IF IsApiError(r.out) THEN Return(PyBool(FALSE))
           ELSE r.out)

set_autorenew_unchecked(s, domain, autorenew, response) ==
    TrueOrFalse(s, request(s, "Set_Autorenew",
                           [domain |-> domain, autorenew |-> autorenew], response))
set_autorenew(s, domain, autorenew, response) ==
    IF autorenew \in AutorenewValues
    THEN TrueOrFalse(s, request(s, "Set_Autorenew",
                                [domain |-> domain, autorenew |-> autorenew], response))
    ELSE Effect(s, << >>, Return(PyBool(FALSE)))

get_dns_zone_raising(s, domain, response) ==
    LET r == request(s, "Get_DNS_Zone", [domain |-> domain], response)
    IN  IF r.out.kind = "raise"
        THEN Effect(s, r.calls, r.out)
        ELSE IF Has(r.out.value, "records")
             THEN Effect(s, r.calls, Return(PyList(r.out.value.records)))
             ELSE Effect(s, r.calls, Raise(KeyError("records")))
get_dns_zone(s, domain, response) ==
    LET r == request(s, "Get_DNS_Zone", [domain |-> domain], response)
    IN  IF r.out.kind = "raise"
        THEN Effect(s, r.calls, r.out)
        ELSE IF Has(r.out.value, "records")
             THEN Effect(s, r.calls, Return(PyList(r.out.value.records)))
             ELSE Effect(s, r.calls, Return(PyList(<< >>)))

\* kwargs["template"] is set when template is falsy ("if not template")
add_dns_zone(s, domain, template, response) ==
    LET kwargs == IF ~Truthy(template)
                  THEN [domain |-> domain, template |-> template]
                  ELSE [domain |-> domain]
    IN  TrueOrFalse(s, request(s, "Add_DNS_Zone", kwargs, response))

add_dns_record(s, domain, record, response) ==
    IF ~IsDict(record)
    THEN Effect(s, << >>, Raise(TypeError))
    ELSE IF ~Has(record, "content")
    THEN Effect(s, << >>, Raise(KeyError("content")))
    ELSE LET rec == SetItem(record, "content", ReSubTrailingDot(record.content))
             r == request(s, "Add_DNS_Record", [domain |-> domain, record |-> rec],
                          response)
         IN  IF r.out.kind = "return"
             THEN IF Has(r.out.value, "record_id")
                  THEN Effect(s, r.calls, Return(r.out.value.record_id))
                  ELSE Effect(s, r.calls, Return(PyBool(FALSE)))
             ELSE IF IsApiError(r.out)
                  THEN Effect(s, r.calls, Return(PyBool(FALSE)))
                  ELSE Effect(s, r.calls, r.out)

modify_dns_record(s, domain, record, response) ==
    IF ~IsDict(record)
    THEN Effect(s, << >>, Raise(TypeError))
    ELSE IF ~Has(record, "id") \/ ~Truthy(record.id)
    THEN Effect(s, << >>, Raise(RecordIdError))
    ELSE TrueOrFalse(s, request(s, "Modify_DNS_Record",
                                [domain |-> domain, record |-> record], response))

delete_dns_record_unchecked(s, domain, record_id, response) ==
    TrueOrFalse(s, request(s, "Delete_DNS_Record",
                           [domain |-> domain, record |-> [id |-> record_id]],
                           response))
delete_dns_record(s, domain, record_id, response) ==
    IF ~Truthy(record_id)
    THEN Effect(s, << >>, Raise(TypeError))
    ELSE TrueOrFalse(s, request(s, "Delete_DNS_Record",
                                [domain |-> domain, record |-> [id |-> record_id]],
                                response))

\* the methods whose body is "raise NotImplementedError"
UnimplementedOps ==
    { "create_contact", "update_contact", "info_contact", "check_object",
      "info_object", "make_order", "info_order", "get_accountings",
      "client_payment", "credit_correction", "prices", "get_pricelist",
      "set_prices", "download_document", "upload_document", "set_dns_zone",
      "poll_ack", "oib_search", "create_domain", "transfer_domain",
      "account_transfer_domain", "transfer_approve_domain",
      "transfer_deny_domain", "transfer_cancel_domain",
      "sk_change_owner_domain", "modify_domain", "modify_ns_domain",
      "delete_domain", "restore_domain", "renew_domain", "backorder_domain",
      "preregister_domain", "create_object", "transfer_object",
      "update_object", "transfer_ru_request", "create_host", "update_host",
      "delete_host" }

unimplemented_calling(s, op) == passthrough(s, op, EmptyDict, OkEnvelope(EmptyDict))
unimplemented(s, op) == Effect(s, << >>, Raise(NotImplementedError))

\* the records set_google_mx_records adds, in order
GoogleRecords ==
    << [content |-> <<"A", "S", "P", "M", "X", ".", "L", ".", "G", "O", "O", "G", "L", "E", ".", "C", "O", "M", ".">>,
        prio |-> 1],
       [content |-> <<"A", "L", "T", "1", ".", "A", "S", "P", "M", "X", ".", "L", ".", "G", "O", "O", "G", "L", "E", ".", "C", "O", "M", ".">>,
        prio |-> 5],
       [content |-> <<"A", "L", "T", "2", ".", "A", "S", "P", "M", "X", ".", "L", ".", "G", "O", "O", "G", "L", "E", ".", "C", "O", "M", ".">>,
        prio |-> 5],
       [content |-> <<"A", "S", "P", "M", "X", "2", ".", "G", "O", "O", "G", "L", "E", "M", "A", "I", "L", ".", "C", "O", "M", ".">>,
        prio |-> 10],
       [content |-> <<"A", "S", "P", "M", "X", "3", ".", "G", "O", "O", "G", "L", "E", "M", "A", "I", "L", ".", "C", "O", "M", ".">>,
        prio |-> 10] >>

\* record["ttl"] = 3600; record["type"] = "MX"
GoogleRecord(i) == SetItem(SetItem(GoogleRecords[i], "ttl", 3600), "type", "MX")

(***************************************************************************)
(* Inputs and the environment.                                             *)
(***************************************************************************)
MaxZone == 2        \* records in the remote zone at the start
MaxLen == 2         \* length of a record's content given by the caller

Domains == {"example.com", "seznam.cz"}
Usernames == {PyNone, PyStr(""), PyStr("user")}
Passwords == {PyNone, PyStr("secret")}
Templates == {PyNone, PyStr(""), PyStr("tpl")}
Policies == AutorenewValues \cup {"BOGUS", "expire"}
RecordIds == {PyNone, PyInt(0), PyInt(1), PyInt(2)}

\* the tokens the server may put in a Login payload
ServerSsids == {PyNone, PyStr("tokA"), PyStr("tokB")}

Chars == {"a", ".", "\n"}
SeqsUpTo(S, n) == UNION { [1..k -> S] : k \in 0..n }
Contents == SeqsUpTo(Chars, MaxLen)

\* the records a caller passes to add_dns_record
AddInputs ==
    {NonDict, [type |-> "A"]}
    \cup { [type |-> "A", content |-> c, ttl |-> 600] : c \in Contents }

\* the records a caller passes to modify_dns_record
ModifyInputs ==
    {NonDict, [type |-> "A", content |-> << "a", "." >>]}
    \cup { [id |-> i, type |-> "A", content |-> << "a", "." >>] : i \in RecordIds }

\* a record of the remote zone
ZoneRecord(id, type) ==
    [id |-> PyInt(id), type |-> type,
     content |-> IF type = "MX" THEN << "m", "x", "." >> ELSE << "a" >>,
     prio |-> 10, ttl |-> 600]

\* the remote zones at the start: ids are consecutive, from 0 or from 1
InitZones ==
    { [k \in 1..n |-> ZoneRecord(base + k, types[k])] :
        base \in {-1, 0}, n \in 0..MaxZone, types \in [1..MaxZone -> {"MX", "A"}] }

\* the data of an ok envelope, by command
\* a payload of nested mappings and sequences with string and integer leaves
ListPayload ==
    [count |-> 1, domains |-> << [name |-> "example.com", expire |-> "2030-01-01"] >>]
Payloads(command) ==
    CASE command = "Login" -> {EmptyDict} \cup { [ssid |-> t] : t \in ServerSsids }
      [] command = "Check_Domain" -> {EmptyDict} \cup { [avail |-> a] : a \in 0..2 }
      [] command = "Get_DNS_Zone" -> {EmptyDict} \cup { [records |-> z] : z \in InitZones }
      [] command = "Add_DNS_Record" ->
            {EmptyDict} \cup { [record_id |-> PyInt(n)] : n \in {0, 1} }
      [] OTHER -> {EmptyDict, ListPayload}

\* what the transport may answer to a call of command: any envelope
Responses(command) ==
    {FalsyResponse} \cup ErrorEnvelopes \cup { OkEnvelope(d) : d \in Payloads(command) }
    \cup {PendingEnvelope(EmptyDict)}

\* The remote server that holds the zone of ZoneDomain: its answer to call c
\* and the zone and next id it is left with.
ZoneDomain == "example.com"
Reply(response, z, nid) == [response |-> response, zone |-> z, nextId |-> nid]
Without(z, id) == SelectSeq(z, LAMBDA r : r.id # id)
ServerReplies(z, nid, c) ==
    { Reply(r, z, nid) : r \in {FalsyResponse} \cup ErrorEnvelopes }
    \cup
    IF c.kwargs.domain # ZoneDomain THEN {}
    ELSE CASE c.command = "Get_DNS_Zone" ->
                { Reply(OkEnvelope([records |-> z]), z, nid) }
                \cup IF z = << >> THEN { Reply(OkEnvelope(EmptyDict), z, nid) } ELSE {}
           [] c.command = "Delete_DNS_Record" ->
                IF \E i \in 1..Len(z) : z[i].id = c.kwargs.record.id
                THEN { Reply(OkEnvelope(EmptyDict), Without(z, c.kwargs.record.id), nid) }
                ELSE {}
           [] c.command = "Add_DNS_Record" ->
                { Reply(OkEnvelope([record_id |-> PyInt(nid)]),
                        Append(z, SetItem(c.kwargs.record, "id", PyInt(nid))),
                        nid + 1) }
           [] OTHER -> {}

(***************************************************************************)
(* The state machine.                                                      *)
(***************************************************************************)
NoMx == [domain |-> "", records |-> << >>, i |-> 0]
NoOp == [op |-> "", args |-> << >>, out |-> Return(PyNone)]
Running == [kind |-> "running"]

\* before Api(...) is called
Init ==
    /\ ssid = PyNone
    /\ pc = "new"
    /\ calls = << >>
    /\ last = NoOp
    /\ zone = << >>
    /\ nextId = 1
    /\ mx = NoMx

\* a method that runs to its end in one step
Finish(op, args, eff) ==
    /\ ssid' = eff.ssid
    /\ calls' = eff.calls
    /\ last' = [op |-> op, args |-> args, out |-> eff.out]
    /\ UNCHANGED <<zone, nextId, mx>>

Construct ==
    /\ pc = "new"
    /\ \E u \in Usernames, p \in Passwords, resp \in Responses("Login") :
          LET eff == init(u, p, resp)
          IN  /\ Finish("__init__", <<u, p>>, eff)
              /\ pc' = IF eff.out.kind = "raise" THEN "failed" ELSE "idle"

Login ==
    /\ pc = "idle"
    /\ \E u \in Usernames \ {PyNone}, p \in Passwords \ {PyNone}, resp \in Responses("Login") :
          Finish("login", <<u, p>>, login(ssid, u, p, resp))
    /\ UNCHANGED pc

CheckDomain ==
    /\ pc = "idle"
    /\ \E d \in Domains, resp \in Responses("Check_Domain") :
          Finish("check_domain", <<d>>, check_domain(ssid, d, resp))
    /\ UNCHANGED pc

InfoDomain ==
    /\ pc = "idle"
    /\ \E d \in Domains, resp \in Responses("Info_Domain") :
          Finish("info_domain", <<d>>, info_domain(ssid, d, resp))
    /\ UNCHANGED pc

InfoDomainCz ==
    /\ pc = "idle"
    /\ \E d \in Domains, resp \in Responses("Info_Domain_CZ") :
          Finish("info_domain_cz", <<d>>, info_domain_cz(ssid, d, resp))
    /\ UNCHANGED pc

DomainsList ==
    /\ pc = "idle"
    /\ \E resp \in Responses("Domains_List") :
          Finish("domains_list", << >>, domains_list(ssid, resp))
    /\ UNCHANGED pc

ContactsList ==
    /\ pc = "idle"
    /\ \E resp \in Responses("Contacts_List") :
          Finish("contacts_list", << >>, contacts_list(ssid, resp))
    /\ UNCHANGED pc

GetCredit ==
    /\ pc = "idle"
    /\ \E resp \in Responses("Get_Credit") :
          Finish("get_credit", << >>, get_credit(ssid, resp))
    /\ UNCHANGED pc

Pricelist ==
    /\ pc = "idle"
    /\ \E resp \in Responses("Pricelist") :
          Finish("pricelist", << >>, pricelist(ssid, resp))
    /\ UNCHANGED pc

ListDocuments ==
    /\ pc = "idle"
    /\ \E resp \in Responses("List_Documents") :
          Finish("list_documents", << >>, list_documents(ssid, resp))
    /\ UNCHANGED pc

UsersList ==
    /\ pc = "idle"
    /\ \E resp \in Responses("Users_List") :
          Finish("users_list", << >>, users_list(ssid, resp))
    /\ UNCHANGED pc

PollGet ==
    /\ pc = "idle"
    /\ \E resp \in Responses("POLL_Get") :
          Finish("poll_get", << >>, poll_get(ssid, resp))
    /\ UNCHANGED pc

SetAutorenew ==
    /\ pc = "idle"
    /\ \E d \in Domains, a \in Policies, resp \in Responses("Set_Autorenew") :
          Finish("set_autorenew", <<d, a>>, set_autorenew(ssid, d, a, resp))
    /\ UNCHANGED pc

GetDnsZone ==
    /\ pc = "idle"
    /\ \E d \in Domains, resp \in Responses("Get_DNS_Zone") :
          Finish("get_dns_zone", <<d>>, get_dns_zone(ssid, d, resp))
    /\ UNCHANGED pc

AddDnsZone ==
    /\ pc = "idle"
    /\ \E d \in Domains, t \in Templates, resp \in Responses("Add_DNS_Zone") :
          Finish("add_dns_zone", <<d, t>>, add_dns_zone(ssid, d, t, resp))
    /\ UNCHANGED pc

DeleteDnsZone ==
    /\ pc = "idle"
    /\ \E d \in Domains, resp \in Responses("Delete_DNS_Zone") :
          Finish("delete_dns_zone", <<d>>, delete_dns_zone(ssid, d, resp))
    /\ UNCHANGED pc

AddDnsRecord ==
    /\ pc = "idle"
    /\ \E d \in Domains, rec \in AddInputs, resp \in Responses("Add_DNS_Record") :
          Finish("add_dns_record", <<d, rec>>, add_dns_record(ssid, d, rec, resp))
    /\ UNCHANGED pc

ModifyDnsRecord ==
    /\ pc = "idle"
    /\ \E d \in Domains, rec \in ModifyInputs, resp \in Responses("Modify_DNS_Record") :
          Finish("modify_dns_record", <<d, rec>>, modify_dns_record(ssid, d, rec, resp))
    /\ UNCHANGED pc

DeleteDnsRecord ==
    /\ pc = "idle"
    /\ \E d \in Domains, id \in RecordIds, resp \in Responses("Delete_DNS_Record") :
          Finish("delete_dns_record", <<d, id>>, delete_dns_record(ssid, d, id, resp))
    /\ UNCHANGED pc

Unimplemented ==
    /\ pc = "idle"
    /\ \E op \in UnimplementedOps :
          Finish(op, << >>, unimplemented(ssid, op))
    /\ UNCHANGED pc

Next ==
    \/ Construct
    \/ Login
    \/ CheckDomain
    \/ InfoDomain
    \/ InfoDomainCz
    \/ DomainsList
    \/ ContactsList
    \/ GetCredit
    \/ Pricelist
    \/ ListDocuments
    \/ UsersList
    \/ PollGet
    \/ SetAutorenew
    \/ GetDnsZone
    \/ AddDnsZone
    \/ DeleteDnsZone
    \/ AddDnsRecord
    \/ ModifyDnsRecord
    \/ DeleteDnsRecord
    \/ Unimplemented

Spec == Init /\ [][Next]_vars

(***************************************************************************)
(* set_google_mx_records, one loop iteration a step, against the remote    *)
(* server that holds the zone.                                             *)
(***************************************************************************)
\* records = self.get_dns_zone(domain)
mx_start(s, domain, response) == get_dns_zone(s, domain, response)

\* one iteration of the first loop
mx_delete_any(s, domain, record, response) ==
    delete_dns_record(s, domain, record.id, response)
mx_delete(s, domain, record, response) ==
    IF record.type = "MX"
    THEN delete_dns_record(s, domain, record.id, response)
    ELSE Effect(s, << >>, Return(PyNone))

\* one iteration of the second loop
mx_add(s, domain, i, response) == add_dns_record(s, domain, GoogleRecord(i), response)

\* the server's answers to the call a step issues
RepliesTo(cs) ==
    IF cs = << >>
    THEN { Reply(FalsyResponse, zone, nextId) }
    ELSE ServerReplies(zone, nextId, cs[1])

MxOp(domain, out) == [op |-> "set_google_mx_records", args |-> <<domain>>, out |-> out]

MxStart ==
    /\ pc = "idle"
    /\ last = NoOp
    /\ \E d \in Domains :
         \E rep \in RepliesTo(mx_start(ssid, d, FalsyResponse).calls) :
            LET eff == mx_start(ssid, d, rep.response)
            IN  /\ ssid' = eff.ssid
                /\ calls' = eff.calls
                /\ zone' = rep.zone
                /\ nextId' = rep.nextId
                /\ IF eff.out.kind = "raise"
                   THEN /\ last' = MxOp(d, eff.out)
                        /\ mx' = NoMx
                        /\ pc' = "idle"
                   ELSE /\ last' = MxOp(d, Running)
                        /\ mx' = [domain |-> d, records |-> eff.out.value.v, i |-> 1]
                        /\ pc' = IF eff.out.value.v = << >> THEN "mx_add" ELSE "mx_delete"

MxDelete ==
    /\ pc = "mx_delete"
    /\ \E rep \in RepliesTo(mx_delete(ssid, mx.domain, mx.records[mx.i], FalsyResponse).calls) :
          LET eff == mx_delete(ssid, mx.domain, mx.records[mx.i], rep.response)
          IN  /\ ssid' = eff.ssid
              /\ calls' = calls \o eff.calls
              /\ zone' = rep.zone
              /\ nextId' = rep.nextId
              /\ IF eff.out.kind = "raise"
                 THEN /\ last' = MxOp(mx.domain, eff.out)
                      /\ mx' = NoMx
                      /\ pc' = "idle"
                 ELSE /\ UNCHANGED last
                      /\ IF mx.i < Len(mx.records)
                         THEN /\ mx' = [mx EXCEPT !.i = mx.i + 1]
                              /\ UNCHANGED pc
                         ELSE /\ mx' = [mx EXCEPT !.i = 1]
                              /\ pc' = "mx_add"

MxAdd ==
    /\ pc = "mx_add"
    /\ \E rep \in RepliesTo(mx_add(ssid, mx.domain, mx.i, FalsyResponse).calls) :
          LET eff == mx_add(ssid, mx.domain, mx.i, rep.response)
          IN  /\ ssid' = eff.ssid
              /\ calls' = calls \o eff.calls
              /\ zone' = rep.zone
              /\ nextId' = rep.nextId
              /\ IF eff.out.kind = "raise"
                 THEN /\ last' = MxOp(mx.domain, eff.out)
                      /\ mx' = NoMx
                      /\ pc' = "idle"
                 ELSE IF mx.i < Len(GoogleRecords)
                 THEN /\ mx' = [mx EXCEPT !.i = mx.i + 1]
                      /\ UNCHANGED <<pc, last>>
                 ELSE /\ last' = MxOp(mx.domain, Return(PyNone))
                      /\ mx' = NoMx
                      /\ pc' = "idle"

\* a constructed client, anonymous or logged in, that is about to call
\* set_google_mx_records, and the remote zone
InitMx ==
    /\ ssid \in {PyNone, PyStr("tokA")}
    /\ pc = "idle"
    /\ calls = << >>
    /\ last = NoOp
    /\ zone \in InitZones
    /\ nextId = IF zone = << >> THEN 1 ELSE zone[Len(zone)].id.v + 1
    /\ mx = NoMx

NextMx ==
    \/ MxStart
    \/ MxDelete
    \/ MxAdd

SpecMx == InitMx /\ [][NextMx]_vars

(***************************************************************************)
(* Properties.                                                             *)
(***************************************************************************)
IsError(response) == response # FalsyResponse /\ response.status = "error"
IsOk(response) == response # FalsyResponse /\ response.status = "ok"
PyFalse == PyBool(FALSE)
PyTrue == PyBool(TRUE)

\* C1: whenever the transport answers a call with an envelope of status
\* "error", _request raises an ApiError whose major, minor and message are
\* the envelope's error.errorcode.major, error.errorcode.minor and
\* error.errormsg, and returns nothing.
C1_ErrorRaisesApiError ==
    \A i \in 1..Len(calls) :
        IsError(calls[i].response) =>
            /\ calls[i].out.kind = "raise"
            /\ calls[i].out.exc.type = "ApiError"
            /\ calls[i].out.exc.major = calls[i].response.error.errorcode.major
            /\ calls[i].out.exc.minor = calls[i].response.error.errorcode.minor
            /\ calls[i].out.exc.message = calls[i].response.error.errormsg

\* an invalid login at construction: ApiError with major 500, minor 104
C1_Witness ==
    /\ last.op = "__init__"
    /\ pc = "failed"
    /\ Len(calls) = 1
    /\ IsError(calls[1].response)
    /\ last.out.kind = "raise"
    /\ last.out.exc.type = "ApiError"
    /\ last.out.exc.major = 500
    /\ last.out.exc.minor = 104

\* the _request invocations of the step taken
StepCalls ==
    IF pc \in {"mx_delete", "mx_add"}
    THEN SubSeq(calls', Len(calls) + 1, Len(calls'))
    ELSE calls'

\* C2 (as claimed): once a token is stored it is never cleared, and every
\* transport call issued while a token is stored carries ssid equal to it.
C2_NeverCleared ==
    [][ Truthy(ssid) =>
            /\ Truthy(ssid')
            /\ \A i \in 1..Len(StepCalls) :
                  /\ Has(StepCalls[i].kwargs, "ssid")
                  /\ StepCalls[i].kwargs.ssid = ssid ]_vars

\* C2 (amended): the stored token changes only in a login (or the login of
\* the constructor) whose ok payload contains ssid, and becomes that ssid,
\* which may be null; every transport call issued while the stored token is
\* truthy carries ssid equal to it, and a call issued while it is not
\* carries no ssid.
C2_TokenOnlyOverwrittenByLogin ==
    [][ /\ ssid' # ssid =>
              /\ last'.op \in {"login", "__init__"}
              /\ Len(calls') = 1
              /\ calls'[1].command = "Login"
              /\ IsOk(calls'[1].response)
              /\ Has(calls'[1].response.data, "ssid")
              /\ ssid' = calls'[1].response.data.ssid
        /\ \A i \in 1..Len(StepCalls) :
              IF Truthy(ssid)
              THEN /\ Has(StepCalls[i].kwargs, "ssid")
                   /\ StepCalls[i].kwargs.ssid = ssid
              ELSE ~Has(StepCalls[i].kwargs, "ssid") ]_vars

\* a second login, sent with the old token, has replaced it by a new one
C2_Witness ==
    /\ last.op = "login"
    /\ Truthy(ssid)
    /\ Len(calls) = 1
    /\ Has(calls[1].kwargs, "ssid")
    /\ Truthy(calls[1].kwargs.ssid)
    /\ calls[1].kwargs.ssid # ssid

\* the constructor's arguments are both given (truthy)
BothGiven(args) == Truthy(args[1]) /\ Truthy(args[2])

\* C3 (as claimed): Api(username, password) with both credentials issues
\* exactly one Login call; on an ok response the client ends with a non-null
\* token, on an error response construction fails with ApiError; with a
\* credential missing it issues no call and the token stays null.
C3_ConstructLogsIn ==
    last.op = "__init__" =>
        IF BothGiven(last.args)
        THEN /\ Len(calls) = 1
             /\ calls[1].command = "Login"
             /\ IsOk(calls[1].response) => (pc = "idle" /\ ssid # PyNone)
             /\ IsError(calls[1].response) =>
                    (pc = "failed" /\ last.out.kind = "raise"
                     /\ last.out.exc.type = "ApiError")
        ELSE calls = << >> /\ ssid = PyNone /\ pc = "idle"

\* C3 (amended): Api(username, password) with both credentials issues exactly
\* one Login call; on an ok response whose payload contains ssid the client
\* ends with that ssid as its token, on an ok response without ssid
\* construction fails with KeyError, on an error response it fails with
\* ApiError; with a credential missing it issues no call and the token stays
\* null.
C3_ConstructLogsInIfSsid ==
    last.op = "__init__" =>
        IF BothGiven(last.args)
        THEN /\ Len(calls) = 1
             /\ calls[1].command = "Login"
             /\ calls[1].kwargs = [login |-> last.args[1], password |-> last.args[2]]
             /\ (IsOk(calls[1].response) /\ Has(calls[1].response.data, "ssid")) =>
                    (pc = "idle" /\ ssid = calls[1].response.data.ssid)
             /\ (IsOk(calls[1].response) /\ ~Has(calls[1].response.data, "ssid")) =>
                    (pc = "failed" /\ ssid = PyNone /\ last.out.kind = "raise"
                     /\ last.out.exc.type = "KeyError")
             /\ IsError(calls[1].response) =>
                    (pc = "failed" /\ ssid = PyNone /\ last.out.kind = "raise"
                     /\ last.out.exc.type = "ApiError")
        ELSE calls = << >> /\ ssid = PyNone /\ pc = "idle"

\* a client constructed with credentials holds the token of the Login payload
C3_Witness ==
    /\ last.op = "__init__"
    /\ BothGiven(last.args)
    /\ pc = "idle"
    /\ Len(calls) = 1
    /\ IsOk(calls[1].response)
    /\ ssid = PyStr("tokA")

\* what a claim about set_google_mx_records reads of a call
Summary(c) ==
    CASE c.command = "Delete_DNS_Record" ->
            [command |-> c.command, domain |-> c.kwargs.domain, id |-> c.kwargs.record.id]
      [] c.command = "Add_DNS_Record" ->
            [command |-> c.command, domain |-> c.kwargs.domain,
             prio |-> c.kwargs.record.prio, ttl |-> c.kwargs.record.ttl,
             type |-> c.kwargs.record.type]
      [] OTHER -> [command |-> c.command, domain |-> c.kwargs.domain]
Summaries(cs) == [i \in 1..Len(cs) |-> Summary(cs[i])]
IsPrefix(a, b) == Len(a) <= Len(b) /\ a = SubSeq(b, 1, Len(a))

\* the zone that Get_DNS_Zone returned to set_google_mx_records
ReturnedZone ==
    IF calls # << >> /\ IsOk(calls[1].response) /\ Has(calls[1].response.data, "records")
    THEN calls[1].response.data.records
    ELSE << >>
IsMx(r) == r.type = "MX"
ExpectedPrios == <<1, 5, 5, 10, 10>>
ExpectedCalls(d) ==
    << [command |-> "Get_DNS_Zone", domain |-> d] >>
    \o [i \in 1..Len(SelectSeq(ReturnedZone, IsMx)) |->
           [command |-> "Delete_DNS_Record", domain |-> d,
            id |-> SelectSeq(ReturnedZone, IsMx)[i].id]]
    \o [i \in 1..5 |->
           [command |-> "Add_DNS_Record", domain |-> d,
            prio |-> ExpectedPrios[i], ttl |-> 3600, type |-> "MX"]]

\* C4: the calls set_google_mx_records(domain) issues are, in this order, one
\* Get_DNS_Zone, one Delete_DNS_Record per record of type MX of the zone
\* returned (none for another type), then five Add_DNS_Record of priorities
\* 1, 5, 5, 10, 10, each with ttl 3600 and type "MX": at every moment the
\* calls issued are a prefix of that sequence, and when the method returns
\* they are the whole of it.
C4_MxCallSequence ==
    last.op = "set_google_mx_records" =>
        /\ IsPrefix(Summaries(calls), ExpectedCalls(last.args[1]))
        /\ last.out.kind = "return" =>
               Summaries(calls) = ExpectedCalls(last.args[1])

\* a finished run on a zone that holds an MX record and another record
C4_Witness ==
    /\ last.op = "set_google_mx_records"
    /\ last.out.kind = "return"
    /\ Len(ReturnedZone) = 2
    /\ Len(SelectSeq(ReturnedZone, IsMx)) = 1
    /\ Len(calls) = 7
    /\ \E i \in 2..7 : IsError(calls[i].response)

\* the five records as the remote zone holds them once added
WithoutId(r) == [k \in DOMAIN r \ {"id"} |-> r[k]]
GoogleZoneRecords ==
    [i \in 1..5 |->
        [content |-> SubSeq(GoogleRecords[i].content, 1, Len(GoogleRecords[i].content) - 1),
         prio |-> ExpectedPrios[i], ttl |-> 3600, type |-> "MX"]]

\* C5: whenever set_google_mx_records returns normally, the MX records of
\* the remote zone are exactly the five Google records: no MX record that
\* was there before remains.
C5_ReplacesAllMx ==
    (last.op = "set_google_mx_records" /\ last.out.kind = "return") =>
        [i \in 1..Len(SelectSeq(zone, IsMx)) |-> WithoutId(SelectSeq(zone, IsMx)[i])]
            = GoogleZoneRecords

\* the methods that answer an ApiError with False, and those that let it pass
SwallowingOps ==
    {"set_autorenew", "add_dns_zone", "add_dns_record", "modify_dns_record",
     "delete_dns_record"}
PropagatingOps ==
    {"check_domain", "info_domain", "info_domain_cz", "domains_list",
     "contacts_list", "get_credit", "pricelist", "list_documents", "users_list",
     "get_dns_zone", "poll_get", "delete_dns_zone"}

\* the ApiError that carries the fields of an error envelope
ErrorOf(response) ==
    [type |-> "ApiError", message |-> response.error.errormsg,
     major |-> response.error.errorcode.major,
     minor |-> response.error.errorcode.minor]

\* what C6 says of the methods other than add_dns_record on an ok response
C6_Common ==
    /\ (last.op \in SwallowingOps /\ Len(calls) = 1 /\ IsError(calls[1].response)) =>
           last.out = Return(PyFalse)
    /\ (last.op \in SwallowingOps \ {"add_dns_record"} /\ Len(calls) = 1
        /\ IsOk(calls[1].response)) =>
           last.out = Return(PyTrue)
    /\ (last.op \in PropagatingOps /\ Len(calls) = 1 /\ IsError(calls[1].response)) =>
           last.out = Raise(ErrorOf(calls[1].response))

\* C6 (as claimed): set_autorenew (valid policy), add_dns_zone,
\* add_dns_record, modify_dns_record and delete_dns_record return False on an
\* error envelope and True on an ok envelope, add_dns_record returning the
\* record id on ok; the read methods and delete_dns_zone raise the ApiError
\* of the error envelope.
C6_SwallowOrPropagate ==
    /\ C6_Common
    /\ (last.op = "add_dns_record" /\ Len(calls) = 1 /\ IsOk(calls[1].response)) =>
           /\ Has(calls[1].response.data, "record_id")
           /\ last.out = Return(calls[1].response.data.record_id)

\* C6 (amended): as claimed, except that add_dns_record on an ok envelope
\* returns the payload's record_id when the payload has one and False when
\* it has none.
C6_SwallowOrPropagateIfRecordId ==
    /\ C6_Common
    /\ (last.op = "add_dns_record" /\ Len(calls) = 1 /\ IsOk(calls[1].response)) =>
           IF Has(calls[1].response.data, "record_id")
           THEN last.out = Return(calls[1].response.data.record_id)
           ELSE last.out = Return(PyFalse)

\* delete_dns_record has answered an error envelope with False
C6_Witness ==
    /\ last.op = "delete_dns_record"
    /\ Len(calls) = 1
    /\ IsError(calls[1].response)
    /\ last.out = Return(PyFalse)

\* the argument fails the method's local validation
FailsValidation(l) ==
    \/ l.op = "delete_dns_record" /\ ~Truthy(l.args[2])
    \/ l.op = "modify_dns_record"
         /\ (~IsDict(l.args[2]) \/ ~Has(l.args[2], "id") \/ ~Truthy(l.args[2].id))
    \/ l.op = "add_dns_record" /\ ~IsDict(l.args[2])

\* C7: delete_dns_record with a falsy record_id, modify_dns_record with a
\* record that is no mapping or has no truthy id, and add_dns_record with a
\* record that is no mapping raise an error, issue no transport call and
\* leave the session token as it was.
C7_ValidationBeforeNetwork ==
    [][ FailsValidation(last') =>
            /\ last'.out.kind = "raise"
            /\ last'.out.exc.type \in {"TypeError", "Exception"}
            /\ calls' = << >>
            /\ ssid' = ssid ]_vars

\* delete_dns_record(domain, None) has raised TypeError on a logged-in client
C7_Witness ==
    /\ last.op = "delete_dns_record"
    /\ last.args[2] = PyNone
    /\ last.out = Raise(TypeError)
    /\ calls = << >>
    /\ Truthy(ssid)

\* C8: set_autorenew(domain, policy) with a policy outside EXPIRE, AUTORENEW,
\* RENEWONCE issues no transport call and returns False; with a policy of
\* the set it issues exactly one Set_Autorenew call with that domain and
\* policy.
C8_AutorenewPolicy ==
    last.op = "set_autorenew" =>
        IF last.args[2] \in {"EXPIRE", "AUTORENEW", "RENEWONCE"}
        THEN /\ Len(calls) = 1
             /\ calls[1].command = "Set_Autorenew"
             /\ calls[1].kwargs.domain = last.args[1]
             /\ calls[1].kwargs.autorenew = last.args[2]
             /\ DOMAIN calls[1].kwargs \subseteq {"domain", "autorenew", "ssid"}
        ELSE /\ calls = << >>
             /\ last.out = Return(PyFalse)

\* set_autorenew(domain, "BOGUS") has returned False
C8_Witness ==
    /\ last.op = "set_autorenew"
    /\ last.args[2] = "BOGUS"
    /\ last.out = Return(PyFalse)
    /\ calls = << >>

\* C9: every method whose body is "raise NotImplementedError" raises it,
\* issues no transport call and leaves the session token as it was, with
\* and without a stored token.
C9_UnimplementedDoNothing ==
    [][ last'.op \in UnimplementedOps =>
            /\ last'.out = Raise(NotImplementedError)
            /\ calls' = << >>
            /\ ssid' = ssid ]_vars

\* an unimplemented method has raised on a logged-in client
C9_Witness ==
    /\ last.op = "poll_ack"
    /\ last.out = Raise(NotImplementedError)
    /\ Truthy(ssid)

\* s ends in "."
EndsInDot(s) == Len(s) >= 1 /\ s[Len(s)] = "."

\* C10: add_dns_record sends the record's content without its last character
\* when the content ends in ".", and unchanged when it does not; every other
\* field of the record is sent unchanged.
C10_TrailingDotStripped ==
    (last.op = "add_dns_record" /\ Len(calls) = 1) =>
        LET given == last.args[2]
            sent == calls[1].kwargs.record
        IN  /\ DOMAIN sent = DOMAIN given
            /\ \A k \in DOMAIN given \ {"content"} : sent[k] = given[k]
            /\ sent.content = IF EndsInDot(given.content)
                              THEN SubSeq(given.content, 1, Len(given.content) - 1)
                              ELSE given.content

\* C11: check_domain returns True exactly when the ok payload's avail is 1;
\* for every other avail, 0 included, it returns False.
C11_AvailableIffOne ==
    /\ (last.op = "check_domain" /\ Len(calls) = 1 /\ IsOk(calls[1].response)
        /\ Has(calls[1].response.data, "avail")) =>
           IF calls[1].response.data.avail = 1
           THEN last.out = Return(PyTrue)
           ELSE last.out = Return(PyFalse)
    /\ (last.op = "check_domain" /\ last.out = Return(PyTrue)) =>
           /\ Len(calls) = 1
           /\ IsOk(calls[1].response)
           /\ Has(calls[1].response.data, "avail")
           /\ calls[1].response.data.avail = 1

\* check_domain has answered avail = 2 with False
C11_Witness ==
    /\ last.op = "check_domain"
    /\ Len(calls) = 1
    /\ IsOk(calls[1].response)
    /\ Has(calls[1].response.data, "avail")
    /\ calls[1].response.data.avail = 2
    /\ last.out = Return(PyFalse)

\* C12: when the transport answers a call with a falsy response, the method
\* that issued it fails with Exception("Fatal error."), which is no ApiError
\* and has no major or minor; it is never turned into False or an empty
\* result, also not by the methods that answer an ApiError with False.
C12_FalsyResponseIsFatal ==
    \A i \in 1..Len(calls) :
        calls[i].response = FalsyResponse =>
            /\ last.out.kind = "raise"
            /\ last.out.exc.type = "Exception"
            /\ last.out.exc.message = "Fatal error."
            /\ DOMAIN last.out.exc = {"type", "message"}

\* add_dns_zone, which answers an ApiError with False, has raised the fatal
\* error on a falsy response
C12_Witness ==
    /\ last.op = "add_dns_zone"
    /\ Len(calls) = 1
    /\ calls[1].response = FalsyResponse
    /\ last.out = Raise(FatalError)

\* the methods that return what _request returned
ReadOps ==
    {"info_domain", "info_domain_cz", "domains_list", "contacts_list", "get_credit",
     "pricelist", "list_documents", "users_list", "poll_get", "delete_dns_zone"}

\* C13: for every truthy response whose status is not "error", _request
\* returns the envelope's data, and what the caller of a method that hands
\* it on receives is the payload the transport delivered: the same keys, the
\* same order of the sequences and the same string and integer leaves.
C13_DataReturnedAsDelivered ==
    /\ \A i \in 1..Len(calls) :
          (calls[i].response # FalsyResponse /\ calls[i].response.status # "error") =>
              /\ calls[i].out.kind = "return"
              /\ calls[i].out.value = calls[i].response.data
    /\ (last.op \in ReadOps /\ Len(calls) = 1 /\ calls[1].response # FalsyResponse
        /\ calls[1].response.status # "error") =>
           /\ last.out.kind = "return"
           /\ DOMAIN last.out.value = DOMAIN calls[1].response.data
           /\ \A k \in DOMAIN last.out.value :
                 last.out.value[k] = calls[1].response.data[k]

\* domains_list has returned the nested payload with its leaves
C13_Witness ==
    /\ last.op = "domains_list"
    /\ Len(calls) = 1
    /\ calls[1].response = OkEnvelope(ListPayload)
    /\ last.out.kind = "return"
    /\ last.out.value.count = 1
    /\ Len(last.out.value.domains) = 1
    /\ last.out.value.domains[1].name = "example.com"
    /\ last.out.value.domains[1].expire = "2030-01-01"

\* C14: get_dns_zone returns the records of an ok payload that has them, and
\* an empty list, not an error, when the ok payload has no records.
C14_RecordsOrEmpty ==
    (last.op = "get_dns_zone" /\ Len(calls) = 1 /\ IsOk(calls[1].response)) =>
        IF Has(calls[1].response.data, "records")
        THEN last.out = Return(PyList(calls[1].response.data.records))
        ELSE last.out = Return(PyList(<< >>))

\* get_dns_zone has answered an ok payload without records with an empty list
C14_Witness ==
    /\ last.op = "get_dns_zone"
    /\ Len(calls) = 1
    /\ calls[1].response = OkEnvelope(EmptyDict)
    /\ last.out = Return(PyList(<< >>))

\* C15: the Add_DNS_Zone request of add_dns_zone(domain, template) carries
\* template equal to the caller's template when the caller gave one, and no
\* template the caller chose when the caller gave none.
C15_TemplateSentWhenGiven ==
    (last.op = "add_dns_zone" /\ Len(calls) = 1) =>
        IF last.args[2] # PyNone
        THEN /\ Has(calls[1].kwargs, "template")
             /\ calls[1].kwargs.template = last.args[2]
        ELSE Has(calls[1].kwargs, "template") => calls[1].kwargs.template = PyNone

\* the payload of a Login response that login stores the ssid of
StoresSsid(response) ==
    /\ response # FalsyResponse
    /\ response.status # "error"
    /\ Has(response.data, "ssid")

\* C16: a login that fails (error envelope, falsy response, or ok payload
\* without ssid) leaves the stored token as it was before the call; a login
\* whose ok payload contains ssid overwrites the token with that ssid; and a
\* method other than login never writes the token.
C16_OnlySuccessfulLoginWritesToken ==
    [][ /\ (last'.op = "login" /\ Len(calls') = 1) =>
              IF StoresSsid(calls'[1].response)
              THEN /\ ssid' = calls'[1].response.data.ssid
                   /\ last'.out = Return(PyNone)
              ELSE /\ ssid' = ssid
                   /\ last'.out.kind = "raise"
        /\ last'.op = "login" => Len(calls') = 1 /\ calls'[1].command = "Login"
        /\ last'.op \notin {"login", "__init__"} => ssid' = ssid
        /\ (last'.op = "__init__" /\ ssid' # ssid) =>
              (Len(calls') = 1 /\ calls'[1].command = "Login"
               /\ StoresSsid(calls'[1].response)) ]_vars

\* a login answered with an error envelope has left the token the call
\* carried in place
C16_Witness ==
    /\ last.op = "login"
    /\ Len(calls) = 1
    /\ IsError(calls[1].response)
    /\ Has(calls[1].kwargs, "ssid")
    /\ Truthy(ssid)
    /\ ssid = calls[1].kwargs.ssid
    /\ IsApiError(last.out)

\* the command a method that issues one call sends
CommandOf(op) ==
    CASE op = "login" -> "Login"
      [] op = "check_domain" -> "Check_Domain"
      [] op = "info_domain" -> "Info_Domain"
      [] op = "info_domain_cz" -> "Info_Domain_CZ"
      [] op = "domains_list" -> "Domains_List"
      [] op = "set_autorenew" -> "Set_Autorenew"
      [] op = "contacts_list" -> "Contacts_List"
      [] op = "get_credit" -> "Get_Credit"
      [] op = "pricelist" -> "Pricelist"
      [] op = "list_documents" -> "List_Documents"
      [] op = "users_list" -> "Users_List"
      [] op = "get_dns_zone" -> "Get_DNS_Zone"
      [] op = "add_dns_zone" -> "Add_DNS_Zone"
      [] op = "delete_dns_zone" -> "Delete_DNS_Zone"
      [] op = "add_dns_record" -> "Add_DNS_Record"
      [] op = "modify_dns_record" -> "Modify_DNS_Record"
      [] op = "delete_dns_record" -> "Delete_DNS_Record"
      [] op = "poll_get" -> "POLL_Get"
      [] OTHER -> ""

\* the invocation l got past the checks its method makes before _request
PassesValidation(l) ==
    /\ CommandOf(l.op) # ""
    /\ ~FailsValidation(l)
    /\ l.op = "add_dns_record" => Has(l.args[2], "content")
    /\ l.op = "set_autorenew" => l.args[2] \in AutorenewValues

\* C17: no retries: every implemented method other than
\* set_google_mx_records that gets past its local checks issues exactly one
\* transport call, of its own command, whether the response is ok, an error
\* envelope or falsy.
C17_ExactlyOneCall ==
    PassesValidation(last) =>
        /\ Len(calls) = 1
        /\ calls[1].command = CommandOf(last.op)

\* check_domain answered with a falsy response has made its one call only
C17_Witness ==
    /\ last.op = "check_domain"
    /\ Len(calls) = 1
    /\ calls[1].response = FalsyResponse
    /\ last.out = Raise(FatalError)

====
